---- MODULE Spec2Model ----
(***************************************************************************)
(* A model of src/RealNVP.py: the realnvp flow (forward, inverse,          *)
(* log_likelihood), its feature networks s_t and the initialization        *)
(* section that builds the masks and the layers.                           *)
(*                                                                         *)
(* Numbers.  A real is an exact rational <<n, d>> (d > 0, lowest terms).   *)
(* A scale output s of a feature network is kept in units of ln 2: the     *)
(* integer k stands for s = k * ln 2, so that exp(s) = 2^k is a rational   *)
(* and every product, quotient and sum of the code is computed exactly.    *)
(* A log-determinant is a sum of such s and is kept in the same unit.      *)
(*                                                                         *)
(* Batches.  Every operation of forward and inverse acts on each row of    *)
(* the batch alone (element-wise products, Dense layers, reduce_sum over   *)
(* axis 1); the model follows one row, a vector, and its scalar log_det.   *)
(***************************************************************************)
EXTENDS Integers, Sequences, FiniteSets, TLC

VARIABLES
    origin,     \* "initialization": built by lines 179-186; "caller": realnvp(...) called with the caller's own arguments
    layers,     \* self.layers: the feature networks
    masks,      \* self.masks
    num_cl,     \* self.num_cl
    distr,      \* self.distr
    pc,         \* "idle", "forward", "inverse", "log_likelihood", "done", "error"
    op,         \* the method the caller invoked
    arg,        \* the vector the caller passed
    i,          \* the loop index of forward / inverse (1-based: code index + 1)
    cur,        \* the local x of forward, y of inverse
    log_det,    \* log_det_for / log_det_inv
    ret,        \* the value log_likelihood returns
    trace,      \* one record per executed coupling step of the running call
    prev,       \* the previous completed call of the caller, <<>> when none
    err         \* the exception that ended the call, "" when none

vars == <<origin, layers, masks, num_cl, distr, pc, op, arg, i, cur, log_det,
          ret, trace, prev, err>>

----------------------------------------------------------------------------
(* Bounds *)

\* the largest num_cl the initialization section is run with
MaxNumCl == 3
\* the longest list of masks a caller constructs a flow with
MaxLayers == 2

\* the dimensionality of the data: s_t(2), masks of two entries
D == 2

\* coordinates of input vectors
InVals == {-1, 0, 2}

----------------------------------------------------------------------------
(* Exact rational arithmetic *)

Abs(n) == IF n < 0 THEN -n ELSE n

RECURSIVE Gcd(_, _)
Gcd(a, b) == IF b = 0 THEN a ELSE Gcd(b, a % b)

Norm(n, d) ==
    LET g == Gcd(Abs(n), Abs(d))
        sg == IF d < 0 THEN -1 ELSE 1
    IN  <<sg * (n \div g), sg * (d \div g)>>

R(n) == <<n, 1>>
RAdd(a, b) == Norm(a[1] * b[2] + b[1] * a[2], a[2] * b[2])
RNeg(a) == <<-a[1], a[2]>>
RSub(a, b) == RAdd(a, RNeg(b))
RMul(a, b) == Norm(a[1] * b[1], a[2] * b[2])
RDiv(a, b) == Norm(a[1] * b[2], a[2] * b[1])
RSgn(a) == IF a[1] > 0 THEN 1 ELSE IF a[1] < 0 THEN -1 ELSE 0

RECURSIVE Pow2(_)
Pow2(k) == IF k = 0 THEN 1 ELSE 2 * Pow2(k - 1)

\* tf.exp(s) for s = k * ln 2
Exp(k) == IF k >= 0 THEN <<Pow2(k), 1>> ELSE <<1, Pow2(-k)>>

----------------------------------------------------------------------------
(* Tensors of rank 1 with numpy / TensorFlow broadcasting *)

\* the length of the result of an element-wise operation, 0 when the shapes are incompatible
BDim(a, b) == IF a = b THEN a ELSE IF a = 1 THEN b ELSE IF b = 1 THEN a ELSE 0

Compatible(u, v) == BDim(Len(u), Len(v)) # 0

\* coordinate j of u once u is broadcast
At(u, j) == IF Len(u) = 1 THEN u[1] ELSE u[j]

\* the tensor with the coordinates f[1], ..., f[n], as a tuple of values
Tensor(f) == SubSeq(f, 1, Len(f))

\* an integer vector as a tensor
VR(m) == Tensor([j \in 1..Len(m) |-> R(m[j])])

RECURSIVE RSum(_)
RSum(u) == IF u = <<>> THEN R(0) ELSE RAdd(u[1], RSum(Tail(u)))

RECURSIVE ISum(_)
ISum(s) == IF s = <<>> THEN 0 ELSE s[1] + ISum(Tail(s))

----------------------------------------------------------------------------
(* s_t: the feature network.  Two stacks of Dense layers map the masked    *)
(* input to t (linear output) and s (tanh output).  A network is its       *)
(* weights: s = sgn(Ws . x + bs), a saturated tanh in units of ln 2, and   *)
(* t = Wt . x + bt.                                                        *)

(* A layer of self.layers is named; Weights gives its parameters.          *)

NetSet == {"A", "B"}

Weights(net) ==
    IF net = "A"
    THEN [Ws |-> << <<1, -1>>, <<1, 1>> >>, bs |-> <<0, -1>>,
          Wt |-> << <<1, 0>>, <<0, 1>> >>, bt |-> <<1, 0>>]
    ELSE [Ws |-> << <<0, 1>>, <<-1, 0>> >>, bs |-> <<1, 0>>,
          Wt |-> << <<0, 2>>, <<1, 1>> >>, bt |-> <<0, -1>>]

RECURSIVE Dot(_, _, _)
\* the first k terms of w . x
Dot(w, x, k) == IF k = 0 THEN R(0) ELSE RAdd(Dot(w, x, k - 1), RMul(R(w[k]), x[k]))

\* one Dense unit before its activation: w . x + b
Dense(w, b, x) == RAdd(Dot(w, x, Len(w)), R(b))

\* s_t.call
NetCall(net, x) ==
    LET p == Weights(net)
    IN  [s |-> <<RSgn(Dense(p.Ws[1], p.bs[1], x)), RSgn(Dense(p.Ws[2], p.bs[2], x))>>,
         t |-> <<Dense(p.Wt[1], p.bt[1], x), Dense(p.Wt[2], p.bt[2], x)>>]

----------------------------------------------------------------------------
(* realnvp: one coupling step of forward and of inverse *)

\* x * self.masks[i]
Masked(x, m) == Tensor([j \in 1..BDim(Len(x), Len(m)) |-> RMul(At(x, j), R(m[j]))])

\* 1 - self.masks[i]
ReversedMask(m) == Tensor([j \in 1..Len(m) |-> 1 - m[j]])

\* a slip: the translation t is added without its mask
CouplingForwardShiftAll(x, m, st) ==
    LET rm == VR(ReversedMask(m))
        x_masked == Masked(x, m)
    IN  Tensor([j \in 1..BDim(Len(x), Len(m)) |->
            RAdd(x_masked[j],
                 RAdd(RMul(RMul(At(x, j), Exp(st.s[j])), rm[j]), st.t[j]))])

\* the assignment to x in forward's loop body
CouplingForward(x, m, st) ==
    LET rm == VR(ReversedMask(m))
        x_masked == Masked(x, m)
    IN  Tensor([j \in 1..BDim(Len(x), Len(m)) |->
            RAdd(x_masked[j],
                 RMul(rm[j], RAdd(RMul(RMul(At(x, j), Exp(st.s[j])), rm[j]),
                                  RMul(st.t[j], rm[j]))))])

\* a slip: the scale is applied again instead of undone
CouplingInverseRescale(y, m, st) ==
    LET rm == ReversedMask(m)
        y_masked == Masked(y, m)
    IN  Tensor([j \in 1..BDim(Len(y), Len(m)) |->
            RAdd(RMul(RMul(R(rm[j]), RSub(At(y, j), RMul(st.t[j], R(rm[j])))),
                      Exp(st.s[j] * rm[j])),
                 y_masked[j])])

\* the assignment to y in inverse's loop body
CouplingInverse(y, m, st) ==
    LET rm == ReversedMask(m)
        y_masked == Masked(y, m)
    IN  Tensor([j \in 1..BDim(Len(y), Len(m)) |->
            RAdd(RMul(RMul(R(rm[j]), RSub(At(y, j), RMul(st.t[j], R(rm[j])))),
                      Exp(-(st.s[j] * rm[j]))),
                 y_masked[j])])

\* the term forward adds to log_det_for
ForwardLogDetTerm(s) == ISum(s)

\* a slip: += where inverse has -=
InverseLogDetTermAdded(s) == ISum(s)

\* the term inverse adds to log_det_inv
InverseLogDetTerm(s) == -ISum(s)

\* range(self.num_cl): the layer visited at each iteration
Range(n) == [k \in 1..n |-> k]

\* a slip: inverse loops in forward's order
ReversedForgotten(n) == [k \in 1..n |-> k]

\* reversed(range(self.num_cl))
Reversed(n) == [k \in 1..n |-> n - k + 1]

\* a slip: the number of feature networks
NumClOfLayers(ls, ms) == Len(ls)

\* self.num_cl, as __init__ sets it
NumCl(ls, ms) == Len(ms)

----------------------------------------------------------------------------
(* distr: tfd.MultivariateNormalDiag(loc, scale_diag).  A log-density is   *)
(* the exact value one + ln2 * ln 2 + ln2pi * ln(2 pi).                    *)

Distr == [loc |-> <<0, 0>>, scale_diag |-> <<1, 1>>]

\* distr.log_prob(y), for a unit scale_diag
LogProb(dist, y) ==
    LET z == [j \in 1..BDim(Len(y), Len(dist.loc)) |->
                 RDiv(RSub(At(y, j), R(dist.loc[j])), R(dist.scale_diag[j]))]
    IN  [one |-> RMul(<<-1, 2>>, RSum([j \in 1..Len(z) |-> RMul(z[j], z[j])])),
         ln2 |-> 0,
         ln2pi |-> Norm(-Len(dist.loc), 2)]

\* a slip: the log-determinant is left out
LogLikelihoodValueNoDet(lp, logdet) == lp

\* line 171: log_prob(y) + logdet
LogLikelihoodValue(lp, logdet) == [lp EXCEPT !.ln2 = lp.ln2 + logdet]

----------------------------------------------------------------------------
(* Initialization *)

\* a slip: the same mask in every layer
AltMasksSame(n) == [k \in 1..(2 * (n \div 2)) |-> <<0, 1>>]

\* np.array([[0, 1], [1, 0]] * (num_cl // 2))
AltMasks(n) == [k \in 1..(2 * (n \div 2)) |-> IF k % 2 = 1 THEN <<0, 1>> ELSE <<1, 0>>]

\* the masks a caller may pass: the binary ones and some that are not
BinaryMasks == [1..D -> {0, 1}]
MaskSet == BinaryMasks \cup {<<2, 0>>}

\* vectors of dimensionality D, and of dimensionality 1 and D + 1
Inputs ==
    [1..D -> InVals] \cup {<<v>> : v \in InVals}
                    \cup {[j \in 1..(D + 1) |-> v] : v \in InVals}

NoCall == <<>>

Constructed(o, ls, ms) ==
    /\ origin = o
    /\ layers = ls
    /\ masks = ms
    /\ num_cl = NumCl(ls, ms)
    /\ distr = Distr
    /\ pc = "idle"
    /\ op = ""
    /\ arg = <<>>
    /\ i = 0
    /\ cur = <<>>
    /\ log_det = 0
    /\ ret = <<>>
    /\ trace = <<>>
    /\ prev = NoCall
    /\ err = ""

\* lines 179-186: num_cl feature networks, 2 * (num_cl // 2) alternating masks
InitScript ==
    \E n \in 0..MaxNumCl : \E ls \in [1..n -> NetSet] :
        Constructed("initialization", ls, AltMasks(n))

\* realnvp(layers, masks, distr) with the caller's own lists, one network per mask
InitCaller ==
    \E n \in 0..MaxLayers : \E ms \in [1..n -> MaskSet] :
        \E ls \in [1..n -> NetSet] :
            Constructed("caller", ls, ms)

Init == InitScript \/ InitCaller

----------------------------------------------------------------------------
(* Calls *)

Enter(o, v, start) ==
    /\ op' = o
    /\ arg' = v
    /\ pc' = start
    /\ i' = 1
    /\ cur' = v
    /\ log_det' = 0
    /\ ret' = <<>>
    /\ trace' = <<>>
    /\ err' = ""
    /\ UNCHANGED <<origin, layers, masks, num_cl, distr>>

\* real_nvp.forward(y) on a fresh vector: lines 136-137
ForwardCall ==
    /\ pc = "idle"
    /\ prev' = NoCall
    /\ \E v \in Inputs : Enter("forward", VR(v), "forward")

\* real_nvp.inverse(x) on a fresh vector: lines 153-154
InverseCall ==
    /\ pc = "idle"
    /\ prev' = NoCall
    /\ \E v \in Inputs : Enter("inverse", VR(v), "inverse")

\* real_nvp.log_likelihood(x) on a fresh vector: line 170 enters inverse
LogLikelihoodCall ==
    /\ pc = "idle"
    /\ prev' = NoCall
    /\ \E v \in Inputs : Enter("log_likelihood", VR(v), "inverse")

\* the caller passes the vector one pass returned to the opposite pass
ChainCall ==
    /\ pc = "done"
    /\ prev = NoCall
    /\ op \in {"forward", "inverse"}
    /\ prev' = [op |-> op, arg |-> arg, out |-> cur, log_det |-> log_det]
    /\ IF op = "forward" THEN Enter("inverse", cur, "inverse")
                         ELSE Enter("forward", cur, "forward")

Raise(e) ==
    /\ pc' = "error"
    /\ err' = e
    /\ UNCHANGED <<origin, layers, masks, num_cl, distr, op, arg, i, cur,
                   log_det, ret, trace, prev>>

\* one iteration of a loop body on layer l: lines 139-145 (fwd), 156-163
Step(l, fwd) ==
    IF l > Len(masks) \/ l > Len(layers) THEN Raise("IndexError")
    ELSE IF ~Compatible(cur, masks[l]) THEN Raise("InvalidArgumentError")
    ELSE \E xm \in {Masked(cur, masks[l])} :
         \E st \in {NetCall(layers[l], xm)} :
         \E y \in {IF fwd THEN CouplingForward(cur, masks[l], st)
                           ELSE CouplingInverse(cur, masks[l], st)} :
         \E ld \in {IF fwd THEN ForwardLogDetTerm(st.s)
                            ELSE InverseLogDetTerm(st.s)} :
             /\ cur' = y
             /\ log_det' = log_det + ld
             /\ trace' = Append(trace, [layer |-> l, mask |-> masks[l], inp |-> cur,
                                        masked |-> xm, s |-> st.s, t |-> st.t,
                                        out |-> y, term |-> ld])
             /\ i' = i + 1
             /\ UNCHANGED <<origin, layers, masks, num_cl, distr, pc, op, arg,
                            ret, prev, err>>

ForwardStep ==
    /\ pc = "forward"
    /\ i <= num_cl
    /\ Step(Range(num_cl)[i], TRUE)

InverseStep ==
    /\ pc = "inverse"
    /\ i <= num_cl
    /\ Step(Reversed(num_cl)[i], FALSE)

\* line 147: return x, log_det_for
ForwardReturn ==
    /\ pc = "forward"
    /\ i > num_cl
    /\ pc' = "done"
    /\ UNCHANGED <<origin, layers, masks, num_cl, distr, op, arg, i, cur,
                   log_det, ret, trace, prev, err>>

\* line 165: return y, log_det_inv, to the caller or to log_likelihood
InverseReturn ==
    /\ pc = "inverse"
    /\ i > num_cl
    /\ pc' = IF op = "log_likelihood" THEN "log_likelihood" ELSE "done"
    /\ UNCHANGED <<origin, layers, masks, num_cl, distr, op, arg, i, cur,
                   log_det, ret, trace, prev, err>>

\* line 171: return self.distr.log_prob(y) + logdet
LogLikelihoodReturn ==
    /\ pc = "log_likelihood"
    /\ IF ~Compatible(cur, distr.loc) THEN Raise("InvalidArgumentError")
       ELSE /\ ret' = LogLikelihoodValue(LogProb(distr, cur), log_det)
            /\ pc' = "done"
            /\ UNCHANGED <<origin, layers, masks, num_cl, distr, op, arg, i,
                           cur, log_det, trace, prev, err>>

Next ==
    \/ ForwardCall
    \/ InverseCall
    \/ LogLikelihoodCall
    \/ ChainCall
    \/ ForwardStep
    \/ InverseStep
    \/ ForwardReturn
    \/ InverseReturn
    \/ LogLikelihoodReturn

Spec == Init /\ [][Next]_vars

----------------------------------------------------------------------------
(* Properties *)

IsBinary(m) == \A j \in 1..Len(m) : m[j] \in {0, 1}
AllBinary == \A k \in 1..Len(masks) : IsBinary(masks[k])

Returned == pc = "done"
LastStep == trace[Len(trace)]

\* what layer l's feature network returns on the masked slice of v
NetOn(l, v) == NetCall(layers[l], Masked(v, masks[l]))

RECURSIVE TermSum(_)
TermSum(tr) == IF tr = <<>> THEN 0 ELSE tr[1].term + TermSum(Tail(tr))

\* the number of executed coupling steps that transform coordinate j
TransformCount(j) == Cardinality({k \in 1..Len(trace) : trace[k].mask[j] = 0})

\* the sum of s over the coordinates the step's mask leaves unmasked
UnmaskedSum(r) ==
    ISum([j \in 1..D |-> IF r.mask[j] = 0 THEN r.s[j] ELSE 0])

\* C1: on a flow with binary masks, inverse of the vector forward(x) returned
\* is x, and forward of the vector inverse(x) returned is x, for x of
\* dimensionality D.
C1_RoundTrip ==
    (Returned /\ prev # NoCall /\ AllBinary /\ Len(prev.arg) = D)
        => cur = prev.arg

C1_Witness ==
    /\ Returned /\ prev # NoCall /\ AllBinary /\ Len(prev.arg) = D
    /\ prev.op = "forward" /\ op = "inverse"
    /\ num_cl >= 2
    /\ prev.out # prev.arg
    /\ \E k \in 1..Len(trace) : \E j \in 1..D :
          trace[k].mask[j] = 0 /\ trace[k].s[j] # 0

\* C2: on a flow with binary masks and an input of dimensionality D, the
\* term a coupling step adds to the log-determinant is the sum of s over the
\* unmasked coordinates only (its negative in inverse).
C2_UnmaskedOnly ==
    (trace # <<>> /\ AllBinary /\ Len(arg) = D)
        => LastStep.term = IF pc = "forward" \/ op = "forward"
                           THEN UnmaskedSum(LastStep)
                           ELSE -UnmaskedSum(LastStep)

\* C3: on a flow with binary masks, the log-determinant forward(x) returned
\* is the negation of the one inverse returns on the vector forward(x)
\* returned.
C3_Antisymmetry ==
    (Returned /\ prev # NoCall /\ prev.op = "forward" /\ AllBinary)
        => prev.log_det = -log_det

C3_Witness ==
    /\ Returned /\ prev # NoCall /\ prev.op = "forward" /\ AllBinary
    /\ num_cl >= 2
    /\ log_det # 0

RECURSIVE InversePass(_, _, _)
\* one iteration of inverse's loop on layer l, st being its network's output
InverseIteration(y, ld, l, st) ==
    InversePass(CouplingInverse(y, masks[l], st), ld + InverseLogDetTerm(st.s), l - 1)

\* inverse's loop from layer l down to layer 1, as a function
InversePass(y, ld, l) ==
    IF l = 0 THEN [y |-> y, log_det |-> ld]
    ELSE InverseIteration(y, ld, l, NetOn(l, y))

\* the value log_likelihood returned is log_prob of z plus the log-determinant
LogLikelihoodOf(inv, lp) ==
    /\ cur = inv.y
    /\ log_det = inv.log_det
    /\ ret.one = lp.one
    /\ ret.ln2pi = lp.ln2pi
    /\ ret.ln2 = lp.ln2 + inv.log_det

\* C4: log_likelihood(x) returns distr.log_prob of the vector inverse(x)
\* produces plus the log-determinant of that inverse pass.
C4_LogLikelihood ==
    (Returned /\ op = "log_likelihood")
        => LogLikelihoodOf(InversePass(arg, 0, num_cl),
                           LogProb(distr, InversePass(arg, 0, num_cl).y))

C4_Witness ==
    /\ Returned /\ op = "log_likelihood"
    /\ num_cl >= 2
    /\ log_det # 0
    /\ cur # arg

\* C5: a coupling step, of forward or of inverse, leaves every coordinate
\* whose mask value is 1 as it was.
C5_PassThrough ==
    \A k \in 1..Len(trace) : \A j \in 1..D :
        trace[k].mask[j] = 1 => trace[k].out[j] = At(trace[k].inp, j)

C5_Witness ==
    /\ trace # <<>>
    /\ \E j \in 1..D :
          /\ LastStep.mask[j] = 1
          /\ LastStep.s[j] # 0
          /\ LastStep.t[j] # R(0)
    /\ LastStep.out # LastStep.inp

\* C6: no forward, inverse or log_likelihood call runs on a flow one of
\* whose masks is not binary: its construction has failed.
C6_NonBinaryRejected ==
    pc \in {"forward", "inverse", "log_likelihood", "done"} => AllBinary

\* C7: on a flow with binary masks, no call whose input's dimensionality
\* is not D runs a coupling step and returns a result: such an input is not
\* broadcast against the masks.
C7_DimensionChecked == (Returned /\ trace # <<>> /\ AllBinary) => Len(arg) = D

\* the alternating masks [0,1],[1,0],... of n layers
Alternating(n) == [k \in 1..n |-> IF k % 2 = 1 THEN <<0, 1>> ELSE <<1, 0>>]

\* C8 as stated: every coordinate is transformed in at least n/2 of the
\* coupling steps a pass applies, n the num_cl of the initialization.
C8_Half ==
    (Returned /\ origin = "initialization")
        => \A j \in 1..D : 2 * TransformCount(j) >= Len(layers)

\* C8 as amended: every coordinate is transformed in at least n \div 2 of
\* the coupling steps a pass applies, n being the num_cl of the
\* initialization, or the number of alternating masks a caller passed.
C8_HalfRoundedDown ==
    /\ (Returned /\ origin = "initialization")
          => \A j \in 1..D : TransformCount(j) >= Len(layers) \div 2
    /\ (Returned /\ masks = Alternating(Len(masks)))
          => \A j \in 1..D : TransformCount(j) >= Len(masks) \div 2

C8_Witness ==
    /\ Returned /\ origin = "initialization"
    /\ Len(layers) = 3
    /\ \A j \in 1..D : TransformCount(j) = 1

\* step record r is layer l's coupling step, st being what l's network
\* returns on the masked slice of r's input
StepOfLayer(r, l, fwd, st) ==
    /\ r.layer = l
    /\ r.mask = masks[l]
    /\ r.s = st.s
    /\ r.t = st.t
    /\ r.out = IF fwd THEN CouplingForward(r.inp, masks[l], st)
                      ELSE CouplingInverse(r.inp, masks[l], st)
    /\ r.term = IF fwd THEN ISum(st.s) ELSE -ISum(st.s)

\* C9: forward runs the layers in index order and inverse in reverse order,
\* each step taking the previous step's output and applying its own layer's
\* network, mask and closed form; the log-determinant starts at zero and
\* gets one term per layer.
C9_Order ==
    pc \in {"forward", "inverse", "log_likelihood", "done"} =>
        /\ Len(trace) = i - 1
        /\ Returned => Len(trace) = num_cl
        /\ log_det = TermSum(trace)
        /\ \A k \in 1..Len(trace) :
              /\ trace[k].inp = IF k = 1 THEN arg ELSE trace[k - 1].out
              /\ trace[k].layer = IF op = "forward" THEN k ELSE num_cl - k + 1
              /\ trace[k].layer \in 1..Len(masks)
              /\ StepOfLayer(trace[k], trace[k].layer, op = "forward",
                             NetOn(trace[k].layer, trace[k].inp))
        /\ Len(trace) = 0 => (cur = arg /\ log_det = 0)
        /\ Len(trace) > 0 => cur = LastStep.out

C9_Witness ==
    /\ Returned /\ op = "inverse"
    /\ num_cl >= 2
    /\ trace[1].layer = num_cl
    /\ trace[num_cl].layer = 1
    /\ trace[1].term # 0 /\ trace[2].term # 0

\* C10: the passes run one coupling step per mask: no network at an index
\* beyond the masks is invoked, also when there are more networks than masks.
C10_StepsPerMask ==
    /\ num_cl = Len(masks)
    /\ \A k \in 1..Len(trace) : trace[k].layer \in 1..Len(masks)
    /\ Returned => Len(trace) = Len(masks)
    /\ pc = "error" => err # "IndexError"

C10_Witness ==
    /\ Returned
    /\ Len(layers) > Len(masks)
    /\ Len(trace) = 2

====
